---- MODULE Spec2Model ----
(***************************************************************************)
(* Session store and tool layer of the resume optimisation agent.          *)
(*                                                                         *)
(* The state is one SessionState object (utils/session_state.py), the      *)
(* attributes the tools attach to it at run time, the directory the        *)
(* document service writes to, and the record the last tool returned.      *)
(* Every action is one call of a SessionState method or of a tool.         *)
(***************************************************************************)
EXTENDS Integers, Sequences, FiniteSets, TLC

VARIABLES
    uploaded_resume_path,   \* SessionState.uploaded_resume_path
    resume_parsed_data,     \* SessionState.resume_parsed_data
    resume_upload_time,     \* SessionState.resume_upload_time
    user_profile,           \* SessionState.user_profile
    current_job_description, \* SessionState.current_job_description
    current_job_analysis,   \* SessionState.current_job_analysis
    job_match_result,       \* SessionState.job_match_result
    conversation_summary,   \* SessionState.conversation_summary
    extra_attrs,            \* instance attributes the tools add to the session object
    disk,                   \* files written by DocumentService.save_document
    first_parse,            \* history: per path, the data of the first real parse
    call,                   \* history: the operation just invoked, with the
                            \* arguments and collaborator answers the properties read
    ret,                    \* the record that operation returned
    agent_executor,         \* orchestrator._agent_executor, the singleton agent
    messages                \* st.session_state.messages of each conversation

resume_fields == <<uploaded_resume_path, resume_parsed_data, resume_upload_time>>

job_context == <<user_profile, current_job_description, current_job_analysis,
                 job_match_result>>

session == <<resume_fields, job_context, conversation_summary, extra_attrs>>

chat == <<agent_executor, messages>>

vars == <<session, disk, first_parse, call, ret, chat>>

-----------------------------------------------------------------------------
(* Bounds of the model *)

MaxTime == 2            \* clock readings are drawn from 1..MaxTime
MaxLog == 3             \* SpecResume stops logging at this many entries
MaxJobsLog == 3         \* SpecJobs stops logging at this many entries
MaxDocsLog == 3         \* SpecDocs stops logging at this many entries
MaxAllLog == 2          \* Spec stops logging at this many entries
MaxLoggedSearches == 2  \* search entries allowed in the log of SpecLog
MaxResults == 2         \* postings in one provider response
MaxFiles == 1           \* files a specification lets the document service write
MaxSkills == 3          \* skills of a resume in SpecScoring
MaxRequirements == 4    \* requirements of a job in SpecScoring
MaxSegments == 3        \* segments in one raw answer of the backend
MaxTurns == 2           \* turns a conversation shows, exchanges the memory holds

-----------------------------------------------------------------------------
(* Values *)

NoPath == "None"               \* Optional[str] = None
NoTime == 0                    \* Optional[datetime] = None
NoData == [none |-> TRUE]      \* Optional[Dict] = None
NoText == "None"               \* Optional[str] = None
NoProfile == [x \in {} |-> TRUE]  \* the empty dict
NoReturn == [returns |-> "None"]   \* a method without a return value

Times == 1..MaxTime

\* Files the parser can be pointed at, and what reading each one gives.
Paths == {"a.pdf", "b.txt", "gone.pdf", "c.rtf", "blank.txt", "bad.docx"}

FileState(p) ==
    CASE p = "a.pdf"     -> "text"
      [] p = "b.txt"     -> "text"
      [] p = "gone.pdf"  -> "missing"
      [] p = "c.rtf"     -> "unsupported"
      [] p = "blank.txt" -> "blank"
      [] OTHER           -> "unreadable"

ValidPaths == {p \in Paths : FileState(p) = "text"}

\* The skills section of each readable file (lower-cased).
SkillsIn(p) == IF p = "a.pdf" THEN {"python", "sql"} ELSE {}

\* The dictionary parse_resume builds for a readable file at clock reading t.
ResumeData(p, t) == [file_path |-> p, skills |-> SkillsIn(p), created_at |-> t]

ParsedValues == {ResumeData(p, t) : p \in ValidPaths, t \in Times}

-----------------------------------------------------------------------------
(* SessionState *)

SummaryLimit == 20

has_resume == uploaded_resume_path # NoPath

is_resume_parsed == resume_parsed_data # NoData

\* Python's seq[-n:]
LastN(s, n) == IF Len(s) <= n THEN s ELSE SubSeq(s, Len(s) - n + 1, Len(s))

\* add_to_summary stamps the fact with the time of day and keeps the last 20.
add_to_summary(summary, fact) ==
    LET appended == Append(summary, [stamped |-> TRUE, fact |-> fact])
    IN  IF Len(appended) > SummaryLimit THEN LastN(appended, SummaryLimit)
        ELSE appended

\* The assignments of SessionState.set_resume.
SetResumeEffect(file_path, parsed_data, now) ==
    /\ uploaded_resume_path' = file_path
    /\ resume_upload_time' = now
    /\ resume_parsed_data' = IF parsed_data # NoData THEN parsed_data
                             ELSE resume_parsed_data
    /\ conversation_summary' =
           add_to_summary(conversation_summary, <<"Resume uploaded", file_path>>)

set_resume(file_path, parsed_data, now) ==
    /\ SetResumeEffect(file_path, parsed_data, now)
    /\ call' = [op |-> "set_resume", file_path |-> file_path]
    /\ ret' = NoReturn
    /\ UNCHANGED <<job_context, extra_attrs, disk, first_parse, chat>>

set_parsed_data(parsed_data) ==
    /\ resume_parsed_data' = parsed_data
    /\ conversation_summary' =
           add_to_summary(conversation_summary, <<"Resume parsed successfully">>)
    /\ call' = [op |-> "set_parsed_data"]
    /\ ret' = NoReturn
    /\ UNCHANGED <<uploaded_resume_path, resume_upload_time, job_context,
                   extra_attrs, disk, first_parse, chat>>

set_job_description(description, analysis) ==
    /\ current_job_description' = description
    /\ current_job_analysis' = IF analysis # NoData THEN analysis
                               ELSE current_job_analysis
    /\ conversation_summary' =
           add_to_summary(conversation_summary, <<"Job description provided">>)
    /\ call' = [op |-> "set_job_description"]
    /\ ret' = NoReturn
    /\ UNCHANGED <<resume_fields, user_profile, job_match_result, extra_attrs,
                   disk, first_parse, chat>>

\* match_result.get('match_score', 'N/A')
ScoreText(match_result) ==
    IF "match_score" \in DOMAIN match_result THEN ToString(match_result.match_score)
    ELSE "N/A"

set_job_match(match_result) ==
    /\ job_match_result' = match_result
    /\ conversation_summary' =
           add_to_summary(conversation_summary,
                          <<"Job match score", ScoreText(match_result)>>)
    /\ call' = [op |-> "set_job_match"]
    /\ ret' = NoReturn
    /\ UNCHANGED <<resume_fields, user_profile, current_job_description,
                   current_job_analysis, extra_attrs, disk, first_parse, chat>>

\* clear() assigns the declared dataclass fields only.
clear ==
    /\ uploaded_resume_path' = NoPath
    /\ resume_parsed_data' = NoData
    /\ resume_upload_time' = NoTime
    /\ user_profile' = NoProfile
    /\ current_job_description' = NoText
    /\ current_job_analysis' = NoData
    /\ job_match_result' = NoData
    /\ conversation_summary' = <<>>
    /\ first_parse' = [p \in ValidPaths |-> NoData]
    /\ call' = [op |-> "clear"]
    /\ ret' = NoReturn
    /\ UNCHANGED <<extra_attrs, disk, chat>>

\* get_context_string
ContextString ==
    (IF has_resume
     THEN <<"Resume uploaded", uploaded_resume_path>>
          \o (IF is_resume_parsed THEN <<"Resume parsed">> ELSE <<>>)
     ELSE <<"No resume uploaded yet">>)
    \o (IF current_job_description # NoText /\ current_job_description # ""
        THEN <<"Job description provided">> ELSE <<>>)
    \o (IF job_match_result # NoData
        THEN <<"Job match analysis complete",
               IF "match_score" \in DOMAIN job_match_result
               THEN job_match_result.match_score ELSE 0>>
        ELSE <<>>)

-----------------------------------------------------------------------------
(* tools/session_tools.py *)

check_resume_status ==
    /\ call' = [op |-> "check_resume_status"]
    /\ ret' = LET status == [has_resume |-> has_resume,
                             file_path |-> uploaded_resume_path,
                             is_parsed |-> is_resume_parsed,
                             upload_time |-> resume_upload_time,
                             context |-> ContextString]
              IN  IF is_resume_parsed
                  THEN [resume_info |->
                            [skills_count |-> Cardinality(resume_parsed_data.skills)]]
                       @@ status
                  ELSE status
    /\ UNCHANGED <<session, disk, first_parse, chat>>

get_session_context ==
    /\ call' = [op |-> "get_session_context"]
    /\ ret' = [has_resume |-> has_resume,
               resume_path |-> uploaded_resume_path,
               has_job_description |-> current_job_description # NoText,
               has_match_analysis |-> job_match_result # NoData,
               recent_activity |-> LastN(conversation_summary, 5)]
    /\ UNCHANGED <<session, disk, first_parse, chat>>

-----------------------------------------------------------------------------
(* tools/resume_parser.py *)

\* "Check if already parsed and cached": file_path is NoPath when omitted.
\* A cache check that forgets the "same path" case of line 175.
CacheHit_mut(file_path) == is_resume_parsed /\ file_path = NoPath

CacheHit(file_path) ==
    is_resume_parsed /\ (file_path = NoPath \/ file_path = uploaded_resume_path)

\* A cache hit that returns the bare data, without status and message.
CachedResult_mut(data) == data

\* The record returned on a cache hit: {"status": "cached", "message": ..., **data}
CachedResult(data) ==
    data @@ [status |-> "cached", message |-> "Resume already parsed in this session"]

\* A parser that never takes the "no resume file found" exit.
NoResumeAvailable_mut(file_path) == FALSE

\* "if not file_path: ... else: return error": no argument and no stored path.
NoResumeAvailable(file_path) == file_path = NoPath /\ ~has_resume

\* History kept with the call: whether a real parse of this path had already
\* succeeded in this session, and whether this call read the file.
ParsedBefore(path) == path \in ValidPaths /\ first_parse[path] # NoData

ParseCall(file_path, real_parse) ==
    [op |-> "parse_resume", file_path |-> file_path,
     parsed_before |-> ParsedBefore(file_path), real_parse |-> real_parse]

parse_resume(file_path, now) ==
    IF CacheHit(file_path)
    THEN /\ ret' = CachedResult(resume_parsed_data)
         /\ call' = ParseCall(file_path, FALSE)
         /\ UNCHANGED <<session, disk, first_parse, chat>>
    ELSE IF NoResumeAvailable(file_path)
    THEN /\ ret' = [error |-> <<"No resume file found. Please upload a resume file first.">>]
         /\ call' = ParseCall(file_path, FALSE)
         /\ UNCHANGED <<session, disk, first_parse, chat>>
    ELSE LET path == IF file_path = NoPath THEN uploaded_resume_path
                     ELSE file_path
         IN  IF FileState(path) = "text"
             THEN LET parsed_dict == ResumeData(path, now)
                  IN  /\ SetResumeEffect(path, parsed_dict, now)
                      /\ ret' = parsed_dict
                      /\ call' = ParseCall(file_path, TRUE)
                      /\ first_parse' =
                             IF first_parse[path] = NoData
                             THEN [first_parse EXCEPT ![path] = parsed_dict]
                             ELSE first_parse
                      /\ UNCHANGED <<job_context, extra_attrs, disk, chat>>
             ELSE /\ ret' = [error |->
                               CASE FileState(path) = "missing" ->
                                        <<"File not found", path>>
                                 [] FileState(path) = "unsupported" ->
                                        <<"Unsupported file type", path>>
                                 [] FileState(path) = "blank" ->
                                        <<"No text could be extracted from the file">>
                                 [] OTHER ->
                                        <<"Failed to parse resume", path>>]
                  /\ call' = ParseCall(file_path, FALSE)
                  /\ UNCHANGED <<session, disk, first_parse, chat>>

-----------------------------------------------------------------------------
(* Attributes that exist on the session object only once a tool assigned them.
   Reading one that was never assigned raises AttributeError, which every
   tool turns into its "except Exception" result. *)

NoAttrs == [x \in {} |-> TRUE]

HasAttr(n) == n \in DOMAIN extra_attrs

SetAttr(attrs, n, v) == [x \in DOMAIN attrs \cup {n} |-> IF x = n THEN v ELSE attrs[x]]

AttributeError(n) == <<"'SessionState' object has no attribute", n>>

-----------------------------------------------------------------------------
(* models/schemas.py JobPosting and services/job_search_service.py *)

NoScore == -1                  \* match_score = None
NoSalary == "None"             \* salary_range = None

\* The postings the provider can return, as _parse_adzuna_job builds them.
\* mentions: the resume skills that occur in the lower-cased title and description.
PostingIds == {"j1", "j2"}

\* A provider posting that arrives with a score of its own.
Posting_mut(id) ==
    [id |-> id, title |-> "Remote Python Developer", remote_type |-> "remote",
     salary_range |-> NoSalary, mentions |-> {"python"}, match_score |-> 50]

\* JobSearchService._parse_adzuna_job: "match_score=None"
Posting(id) ==
    CASE id = "j1" -> [id |-> "j1", title |-> "Remote Python Developer",
                       remote_type |-> "remote", salary_range |-> "$100,000+",
                       mentions |-> {"python"}, match_score |-> NoScore]
      [] OTHER     -> [id |-> "j2", title |-> "Data Engineer",
                       remote_type |-> "onsite", salary_range |-> NoSalary,
                       mentions |-> {"python", "sql"}, match_score |-> NoScore]

\* Provider responses: pages of up to MaxResults postings; the provider's
\* answer is taken as it comes, so a posting may be listed twice.
Responses == UNION {[1..n -> PostingIds] : n \in 0..MaxResults}

Page(s) == [i \in DOMAIN s |-> Posting(s[i])]

Min(a, b) == IF a < b THEN a ELSE b

\* A score whose remote bonus is added without the cap at 100.
MatchScore_mut(job, resume_skills) ==
    LET matching_skills == Cardinality(resume_skills \cap job.mentions)
        total_skills == Cardinality(resume_skills)
        base == IF total_skills > 0
                THEN Min(100, (matching_skills * 100) \div total_skills)
                ELSE 50
    IN  IF job.remote_type = "remote" THEN base + 5 ELSE base

\* The score rank_jobs gives one posting.
MatchScore(job, resume_skills) ==
    LET matching_skills == Cardinality(resume_skills \cap job.mentions)
        total_skills == Cardinality(resume_skills)
        base == IF total_skills > 0
                THEN Min(100, (matching_skills * 100) \div total_skills)
                ELSE 50
    IN  IF job.remote_type = "remote" THEN Min(100, base + 5) ELSE base

\* "j.match_score or 0"
ScoreOrZero(job) == IF job.match_score = NoScore THEN 0 ELSE job.match_score

\* list.sort(key=..., reverse=True): descending and stable.
RECURSIVE InsertDesc(_, _)
InsertDesc(sorted, job) ==
    IF sorted = <<>> THEN <<job>>
    ELSE IF ScoreOrZero(Head(sorted)) >= ScoreOrZero(job)
         THEN <<Head(sorted)>> \o InsertDesc(Tail(sorted), job)
         ELSE <<job>> \o sorted

RECURSIVE SortDesc(_)
SortDesc(jobs) ==
    IF jobs = <<>> THEN <<>>
    ELSE InsertDesc(SortDesc(SubSeq(jobs, 1, Len(jobs) - 1)), jobs[Len(jobs)])

\* A ranking that scores the postings and leaves them in the provider's order.
rank_jobs_mut(jobs, resume_data) ==
    [i \in DOMAIN jobs |->
        [jobs[i] EXCEPT !.match_score = MatchScore(jobs[i], resume_data.skills)]]

rank_jobs(jobs, resume_data) ==
    SortDesc([i \in DOMAIN jobs |->
                 [jobs[i] EXCEPT !.match_score = MatchScore(jobs[i], resume_data.skills)]])

NoJob == [none |-> TRUE]

RECURSIVE get_job_by_id(_, _)
get_job_by_id(job_id, cached_jobs) ==
    IF cached_jobs = <<>> THEN NoJob
    ELSE IF Head(cached_jobs).id = job_id THEN Head(cached_jobs)
         ELSE get_job_by_id(job_id, Tail(cached_jobs))

\* JobSearchService.search_jobs: any provider failure gives the empty list.
search_jobs(provider_ok, response) == IF provider_ok THEN Page(response) ELSE <<>>

-----------------------------------------------------------------------------
(* tools/job_search_tools.py *)

Queries == {"python developer"}
Locations == {"", "NYC"}
Limits == {1, 10}
MinScores == {0, 60}

LocationOrAny(location) == IF location = "" THEN "any location" ELSE location

\* "session.current_job_search_results = jobs"
\* A search that extends the stored list instead of replacing it.
StoreSearchResults_mut(attrs, jobs) ==
    SetAttr(attrs, "current_job_search_results",
            (IF "current_job_search_results" \in DOMAIN attrs
             THEN attrs["current_job_search_results"] ELSE <<>>) \o jobs)

StoreSearchResults(attrs, jobs) == SetAttr(attrs, "current_job_search_results", jobs)

JobSummary(job) == [id |-> job.id, title |-> job.title,
                    salary_range |-> job.salary_range,
                    remote_type |-> job.remote_type,
                    match_score |-> job.match_score]

search_jobs_by_criteria(query, location, limit, provider_ok, response) ==
    LET found == search_jobs(provider_ok, response)
        jobs == IF is_resume_parsed /\ found # <<>>
                THEN rank_jobs(found, resume_parsed_data)
                ELSE found
    IN  /\ Len(response) <= Min(limit, 20)
        /\ call' = [op |-> "search_jobs_by_criteria",
                    provider_ok |-> provider_ok, response |-> response]
        /\ extra_attrs' = StoreSearchResults(extra_attrs, jobs)
        /\ conversation_summary' =
               Append(conversation_summary,
                      [stamped |-> FALSE,
                       fact |-> <<"Searched for", query, LocationOrAny(location)>>])
        /\ ret' = IF jobs = <<>>
                  THEN [status |-> "no_results",
                        message |-> <<"No jobs found for", query, LocationOrAny(location)>>,
                        count |-> 0]
                  ELSE [status |-> "success", count |-> Len(jobs), query |-> query,
                        location |-> location,
                        jobs |-> [i \in DOMAIN jobs |-> JobSummary(jobs[i])]]
        /\ UNCHANGED <<resume_fields, job_context, disk, first_parse, chat>>

get_job_details(job_id) ==
    /\ call' = [op |-> "get_job_details", job_id |-> job_id]
    /\ IF ~HasAttr("current_job_search_results")
       THEN /\ ret' = [status |-> "error",
                       message |-> <<"Error retrieving job details">>
                                   \o AttributeError("current_job_search_results")]
            /\ UNCHANGED extra_attrs
       ELSE LET job == get_job_by_id(job_id, extra_attrs["current_job_search_results"])
            IN  IF job = NoJob
                THEN /\ ret' = [status |-> "not_found",
                                message |-> <<"Job ID not found in current search results",
                                              job_id>>]
                     /\ UNCHANGED extra_attrs
                ELSE /\ extra_attrs' = SetAttr(extra_attrs, "selected_job_id", job_id)
                     /\ ret' = [status |-> "success", job |-> JobSummary(job)]
    /\ UNCHANGED <<resume_fields, job_context, conversation_summary, disk, first_parse, chat>>

\* A filter that forgets the remote_only criterion.
FilterJobs_mut(jobs, min_match_score, remote_only, has_salary) ==
    SelectSeq(jobs, LAMBDA j :
        /\ (min_match_score > 0 => ScoreOrZero(j) >= min_match_score)
        /\ (has_salary => j.salary_range # NoSalary))

FilterJobs(jobs, min_match_score, remote_only, has_salary) ==
    SelectSeq(jobs, LAMBDA j :
        /\ (min_match_score > 0 => ScoreOrZero(j) >= min_match_score)
        /\ (remote_only => j.remote_type = "remote")
        /\ (has_salary => j.salary_range # NoSalary))

filter_jobs_by_requirements(min_match_score, remote_only, has_salary) ==
    /\ call' = [op |-> "filter_jobs_by_requirements",
                min_match_score |-> min_match_score,
                remote_only |-> remote_only, has_salary |-> has_salary]
    /\ IF ~HasAttr("current_job_search_results")
       THEN /\ ret' = [status |-> "error",
                       message |-> <<"Error filtering jobs">>
                                   \o AttributeError("current_job_search_results")]
            /\ UNCHANGED extra_attrs
       ELSE LET jobs == extra_attrs["current_job_search_results"]
                filtered_jobs == FilterJobs(jobs, min_match_score, remote_only, has_salary)
            IN  IF jobs = <<>>
                THEN /\ ret' = [status |-> "no_results",
                                message |-> <<"No jobs to filter. Please search for jobs first.">>]
                     /\ UNCHANGED extra_attrs
                ELSE /\ extra_attrs' =
                            SetAttr(extra_attrs, "current_job_search_results", filtered_jobs)
                     /\ ret' = [status |-> "success", count |-> Len(filtered_jobs),
                                filtered_from |-> Len(jobs),
                                jobs |-> [i \in DOMAIN filtered_jobs |->
                                             JobSummary(filtered_jobs[i])]]
    /\ UNCHANGED <<resume_fields, job_context, conversation_summary, disk, first_parse, chat>>

list_available_jobs ==
    /\ call' = [op |-> "list_available_jobs"]
    /\ ret' = IF ~HasAttr("current_job_search_results")
              THEN [status |-> "error",
                    message |-> <<"Error listing available jobs">>
                                \o AttributeError("current_job_search_results")]
              ELSE LET jobs == extra_attrs["current_job_search_results"]
                   IN  IF jobs = <<>>
                       THEN [status |-> "no_jobs", count |-> 0]
                       ELSE [status |-> "success", count |-> Len(jobs),
                             jobs |-> [i \in DOMAIN jobs |-> JobSummary(jobs[i])]]
    /\ UNCHANGED <<session, disk, first_parse, chat>>

\* The job descriptions a user pastes, and what the tool reads off each:
\* the first 12 hex digits of its MD5, its first line, the words it contains.
Descriptions == {"Senior Python developer, fully remote",
                 "Hybrid SQL analyst, some remote days"}

ManualJobId(job_description) ==
    IF job_description = "Senior Python developer, fully remote"
    THEN "d4d50e0d5c95" ELSE "4aa9dd4165b3"

DescriptionWords(job_description) ==
    IF job_description = "Senior Python developer, fully remote"
    THEN {"python", "remote"} ELSE {"sql", "hybrid", "remote"}

CompanyOrDefault(company_name) ==
    IF company_name = "" THEN "User Provided Company" ELSE company_name

ManualRemoteType(job_description) ==
    LET description_lower == DescriptionWords(job_description)
    IN  IF "remote" \in description_lower /\ "hybrid" \notin description_lower
        THEN "remote"
        ELSE IF "hybrid" \in description_lower THEN "hybrid" ELSE "onsite"

ManualJob(job_description, job_title) ==
    [id |-> ManualJobId(job_description),
     title |-> IF job_title = "" THEN job_description ELSE job_title,
     remote_type |-> ManualRemoteType(job_description),
     salary_range |-> NoSalary,
     mentions |-> DescriptionWords(job_description) \cap {"python", "sql"},
     match_score |-> NoScore]

\* A save that inserts at the front without removing the earlier entry.
ReplaceAtFront_mut(jobs, job) == <<job>> \o jobs

\* "[j for j in ... if j.id != job_id]" followed by "insert(0, job)"
ReplaceAtFront(jobs, job) ==
    <<job>> \o SelectSeq(jobs, LAMBDA j : j.id # job.id)

save_manual_job_description(job_description, job_title, company_name) ==
    LET posting == ManualJob(job_description, job_title)
        job == IF is_resume_parsed
               THEN rank_jobs(<<posting>>, resume_parsed_data)[1]
               ELSE posting
    IN  /\ call' = [op |-> "save_manual_job_description",
                    job_description |-> job_description]
        /\ IF ~HasAttr("current_job_search_results")
           THEN /\ ret' = [status |-> "error",
                           message |-> <<"Error saving job description">>
                                       \o AttributeError("current_job_search_results")]
                /\ UNCHANGED <<extra_attrs, conversation_summary>>
           ELSE /\ extra_attrs' =
                       SetAttr(SetAttr(extra_attrs, "current_job_search_results",
                                       ReplaceAtFront(extra_attrs["current_job_search_results"],
                                                      job)),
                               "selected_job_id", job.id)
                /\ conversation_summary' =
                       add_to_summary(conversation_summary,
                                      <<"Saved manual job", job.title,
                                        CompanyOrDefault(company_name)>>)
                /\ ret' = [status |-> "success",
                           message |-> <<"Job description saved successfully for",
                                         job.title, CompanyOrDefault(company_name)>>,
                           job |-> JobSummary(job)]
        /\ UNCHANGED <<resume_fields, job_context, disk, first_parse, chat>>

-----------------------------------------------------------------------------
(* tools/document_generation_tools.py and DocumentService.save_document *)

Formats == {"pdf", "docx"}
Tones == {"professional"}

\* How save_document can end: the file is written, open() fails,
\* or the write fails after open() created the file.
SaveOutcomes == {"saved", "open_failed", "write_failed"}

\* job_id[:8]
Prefix8(job_id) ==
    CASE job_id = "d4d50e0d5c95" -> "d4d50e0d"
      [] job_id = "4aa9dd4165b3" -> "4aa9dd41"
      [] OTHER -> job_id

\* f"{doc_type}_{job_id[:8]}_{timestamp}.{file_format}"
DocumentPath(doc_type, job_id, now, file_format) ==
    [doc_type |-> doc_type, job |-> Prefix8(job_id), timestamp |-> now,
     file_format |-> file_format]

GeneratedDocuments ==
    IF HasAttr("generated_documents") THEN extra_attrs["generated_documents"]
    ELSE [k \in {} |-> TRUE]

\* "if not session.is_resume_parsed(): return error"
\* A resume check that looks at the stored path instead of the parsed data.
ResumeMissing_mut == ~has_resume

ResumeMissing == ~is_resume_parsed

\* The part both generators share once the text for the document exists:
\* render, save, register, report.
GenerateDocument(doc_type, job_id, job, file_format, render_ok, save, now) ==
    LET file_path == DocumentPath(doc_type, job_id, now, file_format)
        key == <<doc_type, job_id>>
        failure(reason) == [status |-> "error",
                            message |-> <<"Error generating", doc_type>> \o reason]
    IN  IF ~render_ok
        THEN /\ ret' = failure(<<"render failed">>)
             /\ UNCHANGED <<extra_attrs, conversation_summary, disk>>
        ELSE IF save # "saved"
        THEN /\ ret' = failure(<<save>>)
             /\ disk' = IF save = "write_failed" THEN disk \cup {file_path} ELSE disk
             /\ UNCHANGED <<extra_attrs, conversation_summary>>
        ELSE /\ disk' = disk \cup {file_path}
             /\ IF ~HasAttr("generated_documents")
                THEN /\ ret' = failure(AttributeError("generated_documents"))
                     /\ UNCHANGED <<extra_attrs, conversation_summary>>
                ELSE /\ extra_attrs' =
                            SetAttr(extra_attrs, "generated_documents",
                                    SetAttr(extra_attrs["generated_documents"],
                                            key, file_path))
                     /\ conversation_summary' =
                            add_to_summary(conversation_summary,
                                           <<"Generated", doc_type, job.title>>)
                     /\ ret' = [status |-> "success", document_type |-> doc_type,
                                file_format |-> file_format, file_path |-> file_path,
                                job |-> [id |-> job.id, title |-> job.title]]

\* The checks both generators make before producing anything.
GenerationRefused(doc_type, job_id) ==
    IF ResumeMissing
    THEN <<"No resume found. Please upload and parse a resume first.">>
    ELSE IF ~HasAttr("current_job_search_results")
    THEN <<"Error generating", doc_type>> \o AttributeError("current_job_search_results")
    ELSE IF get_job_by_id(job_id, extra_attrs["current_job_search_results"]) = NoJob
    THEN <<"Job ID not found in current search results", job_id>>
    ELSE <<>>

\* A failing summary rewrite is logged and skipped: it changes the text of the
\* document only, so the model has no input for it.
generate_optimized_resume(job_id, file_format, render_ok, save, now) ==
    /\ call' = [op |-> "generate_optimized_resume", job_id |-> job_id,
                llm_ok |-> TRUE, render_ok |-> render_ok, save |-> save]
    /\ IF GenerationRefused("resume", job_id) # <<>>
       THEN /\ ret' = [status |-> "error",
                       message |-> GenerationRefused("resume", job_id)]
            /\ UNCHANGED <<extra_attrs, conversation_summary, disk>>
       ELSE GenerateDocument("resume", job_id,
                get_job_by_id(job_id, extra_attrs["current_job_search_results"]),
                file_format, render_ok, save, now)
    /\ UNCHANGED <<resume_fields, job_context, first_parse, chat>>

generate_cover_letter(job_id, tone, llm_ok, render_ok, save, now) ==
    /\ call' = [op |-> "generate_cover_letter", job_id |-> job_id,
                llm_ok |-> llm_ok, render_ok |-> render_ok, save |-> save]
    /\ IF GenerationRefused("cover_letter", job_id) # <<>>
       THEN /\ ret' = [status |-> "error",
                       message |-> GenerationRefused("cover_letter", job_id)]
            /\ UNCHANGED <<extra_attrs, conversation_summary, disk>>
       ELSE IF ~llm_ok
       THEN /\ ret' = [status |-> "error",
                       message |-> <<"Error generating cover letter content">>]
            /\ UNCHANGED <<extra_attrs, conversation_summary, disk>>
       ELSE GenerateDocument("cover_letter", job_id,
                get_job_by_id(job_id, extra_attrs["current_job_search_results"]),
                "pdf", render_ok, save, now)
    /\ UNCHANGED <<resume_fields, job_context, first_parse, chat>>

list_generated_documents ==
    /\ call' = [op |-> "list_generated_documents"]
    /\ ret' = IF ~HasAttr("generated_documents")
              THEN [status |-> "error",
                    message |-> <<"Error listing documents">>
                                \o AttributeError("generated_documents")]
              ELSE IF DOMAIN extra_attrs["generated_documents"] = {}
              THEN [status |-> "no_documents", count |-> 0]
              ELSE [status |-> "success",
                    count |-> Cardinality(DOMAIN extra_attrs["generated_documents"]),
                    documents |-> extra_attrs["generated_documents"]]
    /\ UNCHANGED <<session, disk, first_parse, chat>>

-----------------------------------------------------------------------------
(* tools/resume_comparator.py calculate_skill_match *)

\* Skill strings as a resume or a job analysis may spell them. The empty
\* string is dropped by "if skill"; a blank one is kept and trims to "".
RawSkills ==
    {"Python", " python ", "SQL", "AWS", "Docker", "Kubernetes",
     "Java", "JavaScript", " ", ""}

\* skill.lower().strip()
LowerStrip(skill) ==
    CASE skill = "Python"     -> "python"
      [] skill = " python "   -> "python"
      [] skill = "SQL"        -> "sql"
      [] skill = "AWS"        -> "aws"
      [] skill = "Docker"     -> "docker"
      [] skill = "Kubernetes" -> "kubernetes"
      [] skill = "Java"       -> "java"
      [] skill = "JavaScript" -> "javascript"
      [] OTHER                -> ""

\* "a in b" for two normalised skills.
IsSubstring(a, b) == a = b \/ a = "" \/ (a = "java" /\ b = "javascript")

\* {skill.lower().strip() for skill in skills if skill}
NormalisedSkills(skills) == {LowerStrip(skill) : skill \in skills \ {""}}

\* round(x, 2) of the fraction n/d, in hundredths: the nearest integer to n/d.
\* No fraction the bounded inputs produce lies halfway between two integers.
RoundDiv(n, d) == (2 * n + d) \div (2 * d)

\* A partial match that forgets to leave out the exact matches.
PartialMatches_mut(resume_skills_lower, job_requirements_lower, matching) ==
    {job_skill \in job_requirements_lower :
        \E resume_skill \in resume_skills_lower :
            IsSubstring(job_skill, resume_skill) \/ IsSubstring(resume_skill, job_skill)}

PartialMatches(resume_skills_lower, job_requirements_lower, matching) ==
    {job_skill \in job_requirements_lower :
        \E resume_skill \in resume_skills_lower :
            /\ IsSubstring(job_skill, resume_skill) \/ IsSubstring(resume_skill, job_skill)
            /\ job_skill \notin matching}

\* The record calculate_skill_match returns; match_score is kept in hundredths
\* of a percent, the precision round(match_score, 2) leaves.
SkillMatch(resume_skills, job_requirements) ==
    LET resume_skills_lower == NormalisedSkills(resume_skills)
        job_requirements_lower == NormalisedSkills(job_requirements)
        matching == resume_skills_lower \cap job_requirements_lower
        partial == PartialMatches(resume_skills_lower, job_requirements_lower, matching)
        missing == (job_requirements_lower \ resume_skills_lower) \ partial
        total_required == Cardinality(job_requirements_lower)
    IN  [matching_skills |-> matching,
         missing_skills |-> missing,
         partial_matches |-> partial,
         match_score |-> IF total_required > 0
                         THEN RoundDiv((2 * Cardinality(matching) + Cardinality(partial))
                                       * 5000, total_required)
                         ELSE 0,
         total_required |-> total_required,
         total_matched |-> Cardinality(matching)]

calculate_skill_match(resume_skills, job_requirements) ==
    /\ call' = [op |-> "calculate_skill_match", resume_skills |-> resume_skills,
                job_requirements |-> job_requirements]
    /\ ret' = SkillMatch(resume_skills, job_requirements)
    /\ UNCHANGED <<session, disk, first_parse, chat>>

-----------------------------------------------------------------------------
(* agent/orchestrator.py: the output normaliser and the two entry points *)

\* A Python str is kept as the sequence of its pieces, so that joining and
\* emptiness are computed: "" is the empty sequence.
Texts == {"", "Hi", "Bye"}

Chars(t) == IF t = "" THEN <<>> ELSE <<[text |-> t]>>

\* The segments a raw answer may hold: text blocks (with text, with empty text,
\* without a text key), a tool-use block, a dict without type, a non-dict.
AnswerBlocks ==
    {[dict |-> TRUE, type |-> "text", text |-> t] : t \in Texts}
        \cup {[dict |-> TRUE, type |-> "text"], [dict |-> TRUE, type |-> "tool_use"],
              [dict |-> TRUE], [dict |-> FALSE]}

\* What the executor may hand back as result['output']: a str, a list of
\* segments, or something else (None).
RawAnswers ==
    {[kind |-> "str", chars |-> Chars(t)] : t \in Texts}
        \cup {[kind |-> "list", blocks |-> b] :
                 b \in UNION {[1..n -> AnswerBlocks] : n \in 0..MaxSegments}}
        \cup {[kind |-> "none"]}

\* "if isinstance(block, dict) and block.get('type') == 'text':
\*      text_parts.append(block.get('text', ''))"
TextParts(blocks) ==
    LET text_blocks == SelectSeq(blocks, LAMBDA block :
                           block.dict /\ "type" \in DOMAIN block /\ block.type = "text")
    IN  [i \in DOMAIN text_blocks |->
            IF "text" \in DOMAIN text_blocks[i] THEN text_blocks[i].text ELSE ""]

\* '\n'.join(text_parts)
RECURSIVE Join(_)
Join(text_parts) ==
    IF text_parts = <<>> THEN <<>>
    ELSE IF Len(text_parts) = 1 THEN Chars(text_parts[1])
    ELSE Chars(Head(text_parts)) \o <<[text |-> "\n"]>> \o Join(Tail(text_parts))

\* str(output): a str is itself, anything else prints as its repr.
Str(output) == IF output.kind = "str" THEN output.chars ELSE <<[repr |-> output]>>

\* A join that is used even when there is no text part.
ListText_mut(output) == Join(TextParts(output.blocks))

\* "'\n'.join(text_parts) if text_parts else str(output)"
ListText(output) ==
    LET text_parts == TextParts(output.blocks)
    IN  IF text_parts # <<>> THEN Join(text_parts) ELSE Str(output)

parse_claude_output(output) ==
    IF output.kind = "list" THEN ListText(output) ELSE Str(output)

\* How AgentExecutor.invoke ends: it returns a dict that normally has an output
\* key, or it raises an exception e, kept as str(e).
ExecutorResults ==
    {[output |-> raw] : raw \in RawAnswers} \cup {[input |-> "user input"]}
        \cup {[raises |-> "Connection error."]}

\* _AgentExecutorWrapper.invoke
Invoke(result) ==
    IF "output" \in DOMAIN result
    THEN [result EXCEPT !.output = [kind |-> "str",
                                    chars |-> parse_claude_output(result.output)]]
    ELSE result

\* _AgentExecutorWrapper.ainvoke
Ainvoke(result) ==
    IF "output" \in DOMAIN result
    THEN [result EXCEPT !.output = [kind |-> "str",
                                    chars |-> parse_claude_output(result.output)]]
    ELSE result

\* The string run_agent and arun_agent return for a result of the executor.
ReturnedText(result) ==
    LET output == IF "output" \in DOMAIN result
                  THEN result.output
                  ELSE [kind |-> "str",
                        chars |-> Chars("I apologize, but I encountered an issue processing your request.")]
    IN  IF output.kind = "list" THEN ListText(output) ELSE Str(output)

\* "except Exception as e: return f"Error: {str(e)}\n\nPlease try rephrasing ..."
ErrorReply(e) ==
    <<[text |-> "Error: "], [detail |-> e],
      [text |-> "\n\nPlease try rephrasing your request or breaking it into smaller steps."]>>

run_agent(result) ==
    /\ call' = [op |-> "run_agent", result |-> result]
    /\ ret' = [output |-> IF "raises" \in DOMAIN result THEN ErrorReply(result.raises)
                          ELSE ReturnedText(Invoke(result))]
    /\ UNCHANGED <<session, disk, first_parse, chat>>

arun_agent(result) ==
    /\ call' = [op |-> "arun_agent", result |-> result]
    /\ ret' = [output |-> IF "raises" \in DOMAIN result THEN ErrorReply(result.raises)
                          ELSE ReturnedText(Ainvoke(result))]
    /\ UNCHANGED <<session, disk, first_parse, chat>>

-----------------------------------------------------------------------------
(* agent/orchestrator.py and app.py: the singleton agent, its conversation
   memory, and the conversations of the chat page *)

\* "_agent_executor = None"
NoExecutor == [none |-> TRUE]

\* The browser sessions served by the process, what each one's user types, and
\* how the executor ends a turn that calls no tool.
Conversations == {"A", "B"}

UserInputs == [c \in Conversations |-> IF c = "A" THEN {"hello from A"}
                                       ELSE {"hello from B"}]

ChatResults ==
    {[output |-> [kind |-> "str", chars |-> Chars("Hi")]],
     [output |-> [kind |-> "list",
                  blocks |-> <<[dict |-> TRUE, type |-> "text", text |-> "Bye"]>>]],
     [raises |-> "Connection error."]}

\* The executor is built with a ConversationBufferMemory under the key
\* chat_history, empty at construction.
create_career_advisor_agent == [chat_history |-> <<>>]

\* An agent that is built anew for every turn.
get_agent_mut == create_career_advisor_agent

\* "if _agent_executor is None: _agent_executor = create_career_advisor_agent()"
get_agent ==
    IF agent_executor = NoExecutor THEN create_career_advisor_agent
    ELSE agent_executor

\* One chat input of conversation c: the input is shown, the singleton agent is
\* fetched and run on it with the chat history its memory holds, the memory
\* keeps the exchange unless the executor raised, and the reply is shown.
Turn(c, user_input, result) ==
    LET executor == get_agent
        response == IF "raises" \in DOMAIN result THEN ErrorReply(result.raises)
                    ELSE ReturnedText(Ainvoke(result))
    IN  /\ Len(messages[c]) < 2 * MaxTurns
        /\ Len(executor.chat_history) < MaxTurns
        /\ call' = [op |-> "turn", conversation |-> c, input |-> user_input,
                    chat_history |-> executor.chat_history, result |-> result]
        /\ ret' = [output |-> response]
        /\ agent_executor' =
               IF "raises" \in DOMAIN result THEN executor
               ELSE [chat_history |->
                        Append(executor.chat_history,
                               [human |-> user_input, ai |-> result.output])]
        /\ messages' = [messages EXCEPT ![c] =
                           @ \o <<[role |-> "user", content |-> Chars(user_input)],
                                  [role |-> "assistant", content |-> response]>>]
        /\ UNCHANGED <<session, disk, first_parse>>

\* The "New Conversation" button of conversation c:
\* "st.session_state.messages = []; reset_agent()"
NewConversation(c) ==
    /\ call' = [op |-> "new_conversation", conversation |-> c]
    /\ ret' = NoReturn
    /\ messages' = [messages EXCEPT ![c] = <<>>]
    /\ agent_executor' = NoExecutor
    /\ UNCHANGED <<session, disk, first_parse>>

-----------------------------------------------------------------------------
(* Specifications *)

\* _global_session = SessionState(), nothing written, nothing parsed.
NewSession ==
    /\ uploaded_resume_path = NoPath
    /\ resume_parsed_data = NoData
    /\ resume_upload_time = NoTime
    /\ user_profile = NoProfile
    /\ current_job_description = NoText
    /\ current_job_analysis = NoData
    /\ job_match_result = NoData
    /\ conversation_summary = <<>>
    /\ extra_attrs = NoAttrs
    /\ disk = {}
    /\ first_parse = [p \in ValidPaths |-> NoData]
    /\ agent_executor = NoExecutor
    /\ messages = [c \in Conversations |-> <<>>]

Init ==
    /\ NewSession
    /\ call = [op |-> "init"]
    /\ ret = NoReturn

\* A specification stops adding to the log at cap entries and stops writing
\* files at MaxFiles; calls that log or write nothing stay enabled.
Bounded(cap) ==
    /\ conversation_summary' # conversation_summary => Len(conversation_summary) < cap
    /\ disk' # disk => Cardinality(disk) < MaxFiles

\* One call of each method or tool, with its arguments and the answers of its
\* collaborators (clock, provider, renderer, file system) drawn from the given sets.
SetResumeFrom(paths, times, cap) ==
    \E p \in paths, t \in times :
        \E d \in {NoData} \cup (IF p \in ValidPaths THEN {ResumeData(p, t)} ELSE {}) :
            set_resume(p, d, t) /\ Bounded(cap)

SetParsedDataFrom(paths, times, cap) ==
    \E p \in paths \cap ValidPaths, t \in times :
        set_parsed_data(ResumeData(p, t)) /\ Bounded(cap)

ParseResumeFrom(paths, times, cap) ==
    \E p \in paths, t \in times : parse_resume(p, t) /\ Bounded(cap)

SearchFrom(locations, limits, responses, cap) ==
    \E q \in Queries, l \in locations, n \in limits, ok \in BOOLEAN, r \in responses :
        /\ ~ok => r = <<>>
        /\ search_jobs_by_criteria(q, l, n, ok, r) /\ Bounded(cap)

SaveManualJobFrom(descriptions, titles, cap) ==
    \E d \in descriptions, t \in titles :
        save_manual_job_description(d, t, "") /\ Bounded(cap)

GenerateResumeFrom(ids, formats, cap) ==
    \E id \in ids, f \in formats, r \in BOOLEAN, s \in SaveOutcomes :
        /\ ~r => s = "saved"
        /\ generate_optimized_resume(id, f, r, s, 1) /\ Bounded(cap)

GenerateCoverLetterFrom(ids, cap) ==
    \E id \in ids, tone \in Tones, llm \in BOOLEAN, r \in BOOLEAN, s \in SaveOutcomes :
        /\ ~llm => r
        /\ ~r => s = "saved"
        /\ generate_cover_letter(id, tone, llm, r, s, 1) /\ Bounded(cap)

-----------------------------------------------------------------------------
(* SpecResume: SessionState's resume methods and the parser. *)

ResumeSetResume == SetResumeFrom(ValidPaths \cup {"gone.pdf"}, Times, MaxLog)

ResumeSetParsedData == SetParsedDataFrom(ValidPaths, Times, MaxLog)

ResumeParse == ParseResumeFrom(Paths \cup {NoPath}, Times, MaxLog)

ResumeClear == clear

ResumeCheckStatus == check_resume_status

NextResume ==
    \/ ResumeSetResume
    \/ ResumeSetParsedData
    \/ ResumeParse
    \/ ResumeClear
    \/ ResumeCheckStatus

SpecResume == Init /\ [][NextResume]_vars

-----------------------------------------------------------------------------
(* SpecLog: the two ways an entry reaches the event log. *)

SearchEntries(summary) ==
    Cardinality({i \in DOMAIN summary : ~summary[i].stamped})

LogSetParsedData == set_parsed_data(ResumeData("a.pdf", 1))

LogSearch ==
    /\ SearchEntries(conversation_summary) < MaxLoggedSearches
    /\ search_jobs_by_criteria("python developer", "", 10, TRUE, <<>>)

NextLog ==
    \/ LogSetParsedData
    \/ LogSearch

SpecLog == Init /\ [][NextLog]_vars

-----------------------------------------------------------------------------
(* SpecJobs: the job list of a session with or without a parsed resume. *)

JobsParse == ParseResumeFrom(ValidPaths, {1}, MaxJobsLog)

JobsSearch == SearchFrom({""}, Limits, Responses, MaxJobsLog)

JobsSaveManualJob == SaveManualJobFrom(Descriptions, {"", "Staff Engineer"}, MaxJobsLog)

JobsGetJobDetails ==
    \E id \in {"j1", "j2", "d4d50e0d5c95", "unknown"} : get_job_details(id)

JobsFilter ==
    \E m \in MinScores, r \in BOOLEAN, s \in BOOLEAN :
        filter_jobs_by_requirements(m, r, s)

JobsList == list_available_jobs

NextJobs ==
    \/ JobsParse
    \/ JobsSearch
    \/ JobsSaveManualJob
    \/ JobsGetJobDetails
    \/ JobsFilter
    \/ JobsList

SpecJobs == Init /\ [][NextJobs]_vars

-----------------------------------------------------------------------------
(* SpecDocs: document generation on top of a resume and a job list, in a
   conversation that can be started anew. *)

NextDocs ==
    \/ SetResumeFrom({"a.pdf"}, {1}, MaxDocsLog)
    \/ ParseResumeFrom({"a.pdf"}, {1}, MaxDocsLog)
    \/ SearchFrom({""}, {10}, {<<>>, <<"j1">>}, MaxDocsLog)
    \/ SaveManualJobFrom({"Senior Python developer, fully remote"}, {""}, MaxDocsLog)
    \/ GenerateResumeFrom({"j1", "d4d50e0d5c95", "unknown"}, Formats, MaxDocsLog)
    \/ GenerateCoverLetterFrom({"j1", "d4d50e0d5c95", "unknown"}, MaxDocsLog)
    \/ list_generated_documents
    \/ NewConversation("A")

SpecDocs == Init /\ [][NextDocs]_vars

-----------------------------------------------------------------------------
(* Spec: every method and tool on one session. *)

Next ==
    \/ SetResumeFrom({"a.pdf"}, {1}, MaxAllLog)
    \/ SetParsedDataFrom({"a.pdf"}, {1}, MaxAllLog)
    \/ ParseResumeFrom((Paths \ {"b.txt"}) \cup {NoPath}, {1}, MaxAllLog)
    \/ /\ set_job_description("Senior Python developer, fully remote",
                              [requirements |-> {"python"}])
       /\ Bounded(MaxAllLog)
    \/ set_job_match([match_score |-> 50]) /\ Bounded(MaxAllLog)
    \/ clear
    \/ check_resume_status
    \/ get_session_context
    \/ SearchFrom({""}, {10}, {<<>>, <<"j1">>}, MaxAllLog)
    \/ \E id \in {"j1", "unknown"} : get_job_details(id)
    \/ \E r \in BOOLEAN : filter_jobs_by_requirements(0, FALSE, r)
    \/ SaveManualJobFrom({"Senior Python developer, fully remote"}, {""}, MaxAllLog)
    \/ list_available_jobs
    \/ GenerateResumeFrom({"j1", "unknown"}, {"pdf"}, MaxAllLog)
    \/ GenerateCoverLetterFrom({"j1", "unknown"}, MaxAllLog)
    \/ list_generated_documents

Spec == Init /\ [][Next]_vars

-----------------------------------------------------------------------------
(* SpecScoring: the two scoring functions, applied to inputs of bounded size. *)

SkillPool == <<"python", "sql", "aws", "docker", "kubernetes">>

ScoringSkills == {SkillPool[i] : i \in 1..Min(MaxSkills, Len(SkillPool))}

RemoteTypes == {"remote", "hybrid", "onsite"}

\* A posting whose title and description mention the given skills.
ScoringPosting(id, mentions, remote_type) ==
    [id |-> id, title |-> "Engineer", remote_type |-> remote_type,
     salary_range |-> NoSalary, mentions |-> mentions, match_score |-> NoScore]

\* The inputs of one call: two postings and the skills of a resume for
\* rank_jobs, or two skill lists for calculate_skill_match.
InitScoring ==
    /\ NewSession
    /\ ret = NoReturn
    /\ \/ \E skills \in SUBSET ScoringSkills, m1 \in SUBSET ScoringSkills,
             m2 \in SUBSET ScoringSkills, r1 \in RemoteTypes, r2 \in RemoteTypes :
              call = [op |-> "request", tool |-> "rank_jobs",
                      resume_skills |-> skills,
                      jobs |-> <<ScoringPosting("p1", m1, r1),
                                 ScoringPosting("p2", m2, r2)>>]
       \/ \E resume_skills \in SUBSET RawSkills, job_requirements \in SUBSET RawSkills :
              /\ Cardinality(resume_skills) <= MaxSkills
              /\ Cardinality(job_requirements) <= MaxRequirements
              /\ call = [op |-> "request", tool |-> "calculate_skill_match",
                         resume_skills |-> resume_skills,
                         job_requirements |-> job_requirements]

ScoreRankJobs ==
    /\ call.op = "request" /\ call.tool = "rank_jobs"
    /\ call' = [op |-> "rank_jobs", resume_skills |-> call.resume_skills,
                jobs |-> call.jobs]
    /\ ret' = [jobs |-> rank_jobs(call.jobs, [skills |-> call.resume_skills])]
    /\ UNCHANGED <<session, disk, first_parse, chat>>

ScoreSkillMatch ==
    /\ call.op = "request" /\ call.tool = "calculate_skill_match"
    /\ calculate_skill_match(call.resume_skills, call.job_requirements)

NextScoring ==
    \/ ScoreRankJobs
    \/ ScoreSkillMatch

SpecScoring == InitScoring /\ [][NextScoring]_vars

-----------------------------------------------------------------------------
(* SpecNormalise: the two entry points, applied to every result the executor
   can hand back. *)

InitNormalise ==
    /\ NewSession
    /\ ret = NoReturn
    /\ \E tool \in {"run_agent", "arun_agent"}, result \in ExecutorResults :
           call = [op |-> "request", tool |-> tool, result |-> result]

NextNormalise ==
    \/ /\ call.op = "request" /\ call.tool = "run_agent"
       /\ run_agent(call.result)
    \/ /\ call.op = "request" /\ call.tool = "arun_agent"
       /\ arun_agent(call.result)

SpecNormalise == InitNormalise /\ [][NextNormalise]_vars

-----------------------------------------------------------------------------
(* SpecChat: two conversations of one process taking turns that call no tool. *)

NextChat ==
    \/ \E c \in Conversations :
           \E user_input \in UserInputs[c], result \in ChatResults :
               Turn(c, user_input, result)
    \/ \E c \in Conversations : NewConversation(c)

SpecChat == Init /\ [][NextChat]_vars

-----------------------------------------------------------------------------
(* Properties *)

StatusOf(r) == IF "status" \in DOMAIN r THEN r.status ELSE "(no status)"

\* What a parse result carries besides the status and message of a cache hit.
StructuredData(r) == [k \in DOMAIN r \ {"status", "message"} |-> r[k]]

JobList ==
    IF HasAttr("current_job_search_results")
    THEN extra_attrs["current_job_search_results"] ELSE <<>>

Resolves(job_id) == get_job_by_id(job_id, JobList) # NoJob

Mentions(message, job_id) == \E i \in DOMAIN message : message[i] = job_id

Generators == {"generate_optimized_resume", "generate_cover_letter"}

\* C1 as stated: once parse_resume(P) has succeeded for a valid path P, every
\* later parse_resume(P) of the session returns status=cached with the data of
\* the first result and reads no file, whatever happened in between.
C1_Original ==
    (call.op = "parse_resume" /\ call.file_path \in ValidPaths /\ call.parsed_before)
    => /\ ~call.real_parse
       /\ StatusOf(ret) = "cached"
       /\ StructuredData(ret) = first_parse[call.file_path]

\* C1 amended: once parse_resume(P) has succeeded, a later parse_resume(P) made
\* while the session still holds P as its stored path and the first result as
\* its cached parse returns status=cached with the data of the first result,
\* reads no file and leaves the session as it is.
C1_Amended ==
    [][ (/\ call'.op = "parse_resume"
         /\ call'.file_path \in ValidPaths
         /\ call'.parsed_before
         /\ uploaded_resume_path = call'.file_path
         /\ resume_parsed_data = first_parse[call'.file_path])
        => /\ ~call'.real_parse
           /\ StatusOf(ret') = "cached"
           /\ StructuredData(ret') = first_parse[call'.file_path]
           /\ UNCHANGED session ]_vars

C1_Witness ==
    /\ call.op = "parse_resume"
    /\ call.file_path \in ValidPaths
    /\ call.parsed_before
    /\ ~call.real_parse
    /\ StatusOf(ret) = "cached"
    /\ StructuredData(ret) = first_parse[call.file_path]
    /\ Len(conversation_summary) > 1

\* C2 as stated: a step that changes the stored path to a path the cached
\* parse does not belong to leaves the cache cleared or replaced by a parse of
\* the new path.
C2_Original ==
    [][ (/\ uploaded_resume_path' # uploaded_resume_path
         /\ is_resume_parsed
         /\ resume_parsed_data.file_path # uploaded_resume_path')
        => \/ resume_parsed_data' = NoData
           \/ resume_parsed_data'.file_path = uploaded_resume_path' ]_vars

\* C3 as stated: the event log never holds more than 20 entries.
C3_Original == Len(conversation_summary) <= SummaryLimit

\* C4 as stated: right after clear() every session field is empty or null.
C4_Original ==
    call.op = "clear"
    => /\ uploaded_resume_path = NoPath
       /\ resume_parsed_data = NoData
       /\ resume_upload_time = NoTime
       /\ JobList = <<>>
       /\ ~HasAttr("selected_job_id")
       /\ DOMAIN GeneratedDocuments = {}
       /\ conversation_summary = <<>>

\* C5 as stated: with a parsed resume, a job id that resolves, and the prose
\* backend, the renderer and the file system all answering, a generator returns
\* status=success, the file is on disk and the registry maps the composite key
\* to the returned path.
C5_Original ==
    (/\ call.op \in Generators
     /\ is_resume_parsed
     /\ Resolves(call.job_id)
     /\ call.llm_ok /\ call.render_ok /\ call.save = "saved")
    => /\ StatusOf(ret) = "success"
       /\ ret.file_path \in disk
       /\ \E key \in DOMAIN GeneratedDocuments :
              key[2] = call.job_id /\ GeneratedDocuments[key] = ret.file_path

\* C6: a generator called while no resume is parsed returns status=error and
\* writes no file, for every job id, format and collaborator answer.
C6_NoResumeNoWrite ==
    [][ (call'.op \in Generators /\ ~is_resume_parsed)
        => (StatusOf(ret') = "error" /\ disk' = disk) ]_vars

C6_Witness ==
    /\ call.op \in Generators
    /\ ~is_resume_parsed
    /\ has_resume
    /\ Resolves(call.job_id)
    /\ call.llm_ok /\ call.render_ok /\ call.save = "saved"
    /\ StatusOf(ret) = "error"

\* C7 as stated: with a parsed resume, generating a resume for a job id that
\* does not resolve returns status=error with a message that mentions the job
\* id and leaves the registry unchanged, also when no search was ever run.
C7_Original ==
    [][ (/\ call'.op = "generate_optimized_resume"
         /\ is_resume_parsed
         /\ ~Resolves(call'.job_id))
        => /\ StatusOf(ret') = "error"
           /\ Mentions(ret'.message, call'.job_id)
           /\ GeneratedDocuments' = GeneratedDocuments ]_vars

RegisteredTools ==
    {"check_resume_status", "get_session_context", "parse_resume",
     "search_jobs_by_criteria", "get_job_details", "filter_jobs_by_requirements",
     "list_available_jobs", "generate_optimized_resume", "generate_cover_letter",
     "list_generated_documents"}

StatusTools ==
    {"search_jobs_by_criteria", "get_job_details", "filter_jobs_by_requirements",
     "save_manual_job_description", "list_available_jobs",
     "generate_optimized_resume", "generate_cover_letter",
     "list_generated_documents"}

Unscored(job) == [job EXCEPT !.match_score = NoScore]

Occurrences(jobs, id) == Cardinality({i \in DOMAIN jobs : jobs[i].id = id})

\* C10: right after a search the session's job list holds exactly the postings
\* that search returned, each once per occurrence, scored and in non-increasing
\* score order when a resume is parsed and as returned otherwise; nothing of
\* the previous list is kept.
C10_SearchReplaces ==
    call.op = "search_jobs_by_criteria"
    => LET found == search_jobs(call.provider_ok, call.response)
       IN  /\ HasAttr("current_job_search_results")
           /\ Len(JobList) = Len(found)
           /\ \A i \in DOMAIN found :
                  Occurrences(JobList, found[i].id) = Occurrences(found, found[i].id)
           /\ \A i \in DOMAIN JobList :
                  \E k \in DOMAIN found : Unscored(JobList[i]) = found[k]
           /\ IF is_resume_parsed
              THEN /\ \A i \in DOMAIN JobList : JobList[i].match_score \in 0..100
                   /\ \A i, k \in DOMAIN JobList :
                          i < k => JobList[i].match_score >= JobList[k].match_score
              ELSE JobList = found

C10_Witness ==
    /\ call.op = "search_jobs_by_criteria"
    /\ \E i \in DOMAIN conversation_summary :
           conversation_summary[i].fact[1] = "Saved manual job"
    /\ Len(JobList) = 2
    /\ \A i \in DOMAIN JobList : JobList[i].id \in PostingIds

\* C11 as stated: a search whose provider call fails returns an error status
\* and an empty result list.
C11_Original ==
    (call.op = "search_jobs_by_criteria" /\ ~call.provider_ok)
    => (StatusOf(ret) = "error" /\ JobList = <<>>)

NonIncreasing(jobs) ==
    \A i, k \in DOMAIN jobs : i < k => jobs[i].match_score >= jobs[k].match_score

\* C13: with a parsed resume in the session, the list a search stores and the
\* list it returns are the same postings in the same order, each with a score,
\* in non-increasing order of match_score.
C13_SortedWhenParsed ==
    (call.op = "search_jobs_by_criteria" /\ is_resume_parsed)
    => /\ \A i \in DOMAIN JobList : JobList[i].match_score # NoScore
       /\ NonIncreasing(JobList)
       /\ IF JobList = <<>>
          THEN StatusOf(ret) = "no_results"
          ELSE /\ StatusOf(ret) = "success"
               /\ ret.jobs = [i \in DOMAIN JobList |-> JobSummary(JobList[i])]
               /\ NonIncreasing(ret.jobs)

C13_Witness ==
    /\ call.op = "search_jobs_by_criteria"
    /\ is_resume_parsed
    /\ call.response = <<"j1", "j2">>
    /\ JobList[1].id = "j2"
    /\ JobList[1].match_score > JobList[2].match_score
    /\ ret.jobs[1].id = "j2"

\* C14 as stated: without a parsed resume every posting a search returns
\* carries the same neutral default score, a number and not null.
C14_Original ==
    (call.op = "search_jobs_by_criteria" /\ ~is_resume_parsed)
    => /\ \A i \in DOMAIN JobList : JobList[i].match_score \in 0..100
       /\ \A i, k \in DOMAIN JobList : JobList[i].match_score = JobList[k].match_score
       /\ "jobs" \in DOMAIN ret
          => \A i \in DOMAIN ret.jobs : ret.jobs[i].match_score \in 0..100

\* C15: the id of a manual job is a function of its description alone, and a
\* successful save_manual_job_description leaves exactly one entry with that id
\* in the job list, at the front, followed by the other entries of the previous
\* list in their previous order.
C15_ManualReplaces ==
    [][ (call'.op = "save_manual_job_description" /\ StatusOf(ret') = "success")
        => LET id == ManualJobId(call'.job_description)
           IN  /\ ret'.job.id = id
               /\ JobList' # <<>>
               /\ JobList'[1].id = id
               /\ Occurrences(JobList', id) = 1
               /\ Tail(JobList') = SelectSeq(JobList, LAMBDA j : j.id # id)
               /\ extra_attrs'["selected_job_id"] = id ]_vars

\* The same description saved twice, under two titles, into a list that holds
\* another posting.
C15_Witness ==
    /\ call.op = "save_manual_job_description"
    /\ StatusOf(ret) = "success"
    /\ Len(JobList) = 2
    /\ JobList[2].id \in PostingIds
    /\ \E i, k \in DOMAIN conversation_summary :
           /\ i < k
           /\ conversation_summary[i].fact[1] = "Saved manual job"
           /\ conversation_summary[k].fact[1] = "Saved manual job"
           /\ conversation_summary[i].fact[2] = call.job_description
           /\ conversation_summary[k].fact[2] = "Staff Engineer"

\* Whether a posting meets the criteria of the filter call just made.
\* C16: filter_jobs_by_requirements replaces a non-empty job list by the
\* sub-sequence of its postings that meet every requested criterion, in their
\* previous order, so the list never grows and a posting once removed is not
\* brought back by a later filter; list_available_jobs and get_job_details
\* leave the job list as it is.
C16_FilterNarrows ==
    [][ /\ call'.op = "filter_jobs_by_requirements"
           => /\ JobList' = SelectSeq(JobList, LAMBDA job :
                     /\ (call'.min_match_score > 0 =>
                             (job.match_score # NoScore
                              /\ job.match_score >= call'.min_match_score))
                     /\ (call'.remote_only => job.remote_type = "remote")
                     /\ (call'.has_salary => job.salary_range # NoSalary))
              /\ Len(JobList') <= Len(JobList)
              /\ \A i \in DOMAIN JobList' :
                     \E k \in DOMAIN JobList : JobList'[i] = JobList[k]
              /\ HasAttr("current_job_search_results")' = HasAttr("current_job_search_results")
        /\ call'.op \in {"list_available_jobs", "get_job_details"}
           => /\ JobList' = JobList
              /\ HasAttr("current_job_search_results")' = HasAttr("current_job_search_results")
      ]_vars

\* A filter that kept one of two postings.
C16_Witness ==
    /\ call.op = "filter_jobs_by_requirements"
    /\ call.remote_only
    /\ StatusOf(ret) = "success"
    /\ ret.filtered_from = 2
    /\ ret.count = 1
    /\ Len(JobList) = 1
    /\ JobList[1].remote_type = "remote"

\* The number of resume skills the text of a ranked posting contains.
Hits(job) == Cardinality(call.resume_skills \cap job.mentions)

\* C12: every posting rank_jobs has scored carries an integer score between 0
\* and 100, also with the remote bonus, and of two postings of the same remote
\* type ranked against the same resume the one containing at least as many of
\* the resume's skills scores at least as high.
C12_ScoreInRangeMonotone ==
    call.op = "rank_jobs"
    => /\ Len(ret.jobs) = Len(call.jobs)
       /\ \A i \in DOMAIN ret.jobs : ret.jobs[i].match_score \in 0..100
       /\ \A i, k \in DOMAIN ret.jobs :
              (/\ ret.jobs[i].remote_type = ret.jobs[k].remote_type
               /\ Hits(ret.jobs[i]) <= Hits(ret.jobs[k]))
              => ret.jobs[i].match_score <= ret.jobs[k].match_score

\* Two remote postings, one containing every skill of the resume (its bonus
\* is cut off at 100) and one containing fewer.
C12_Witness ==
    /\ call.op = "rank_jobs"
    /\ Cardinality(call.resume_skills) = 3
    /\ ret.jobs[1].remote_type = "remote" /\ ret.jobs[2].remote_type = "remote"
    /\ Hits(ret.jobs[1]) = 3 /\ ret.jobs[1].match_score = 100
    /\ Hits(ret.jobs[2]) = 2 /\ ret.jobs[2].match_score = 71

\* The three sets calculate_skill_match returns split the lower-cased, trimmed
\* job requirements, and the exact matches are those the resume also lists.
SplitsRequirements(result, resume_skills, job_requirements) ==
    LET required == {LowerStrip(s) : s \in job_requirements \ {""}}
        offered == {LowerStrip(s) : s \in resume_skills \ {""}}
    IN  /\ result.matching_skills \cap result.partial_matches = {}
        /\ result.matching_skills \cap result.missing_skills = {}
        /\ result.partial_matches \cap result.missing_skills = {}
        /\ result.matching_skills \cup result.partial_matches
               \cup result.missing_skills = required
        /\ result.matching_skills = offered \cap required
        /\ result.total_required = Cardinality(required)

\* The example of the specification: {Python, SQL, AWS} against
\* {Python, Docker, SQL, Kubernetes}.
ExampleHolds ==
    (/\ call.resume_skills = {"Python", "SQL", "AWS"}
     /\ call.job_requirements = {"Python", "Docker", "SQL", "Kubernetes"})
    => /\ ret.matching_skills = {"python", "sql"}
       /\ ret.missing_skills = {"docker", "kubernetes"}
       /\ ret.partial_matches = {}
       /\ ret.match_score = 5000

\* Twice the weighted number of matched requirements: 2 * (|exact| + 0.5 * |partial|).
Weighted2(result) ==
    2 * Cardinality(result.matching_skills) + Cardinality(result.partial_matches)

\* C17 as stated: the three sets split the requirements and match_score is
\* exactly (|exact| + 0.5 * |partial|) / |requirements| * 100, or 0 without
\* requirements (match_score is in hundredths of a percent).
C17_Original ==
    call.op = "calculate_skill_match"
    => /\ SplitsRequirements(ret, call.resume_skills, call.job_requirements)
       /\ ExampleHolds
       /\ IF ret.total_required = 0
          THEN ret.match_score = 0
          ELSE ret.match_score * ret.total_required = Weighted2(ret) * 5000

\* C17 amended: the three sets split the requirements and match_score is
\* (|exact| + 0.5 * |partial|) / |requirements| * 100 rounded to two decimals
\* (within half a hundredth of the exact value), or 0 without requirements.
C17_Amended ==
    call.op = "calculate_skill_match"
    => /\ SplitsRequirements(ret, call.resume_skills, call.job_requirements)
       /\ ExampleHolds
       /\ IF ret.total_required = 0
          THEN ret.match_score = 0
          ELSE LET error == ret.match_score * ret.total_required - Weighted2(ret) * 5000
               IN  2 * error <= ret.total_required /\ 0 - 2 * error <= ret.total_required

\* One partial match among three requirements: 0.5 / 3 * 100 = 16.67.
C17_Witness ==
    /\ call.op = "calculate_skill_match"
    /\ call.resume_skills = {"Java"}
    /\ call.job_requirements = {"JavaScript", "SQL", "AWS"}
    /\ ret.partial_matches = {"javascript"}
    /\ ret.missing_skills = {"sql", "aws"}
    /\ ret.match_score = 1667

\* The positions of the text-typed segments of a segment list.
TextPositions(blocks) ==
    {i \in DOMAIN blocks : blocks[i].dict /\ "type" \in DOMAIN blocks[i]
                           /\ blocks[i].type = "text"}

\* The non-empty texts of the text-typed segments, in their order in the list.
TextsInOrder(blocks) ==
    LET with_text == SelectSeq(blocks, LAMBDA b :
                         /\ b.dict /\ "type" \in DOMAIN b /\ b.type = "text"
                         /\ "text" \in DOMAIN b /\ b.text # "")
    IN  [i \in DOMAIN with_text |-> [text |-> with_text[i].text]]

\* C19: both entry points return a plain string answer unchanged; for a
\* segment list with at least one text-typed segment they return the texts of
\* those segments in their original order, one newline between consecutive
\* ones and nothing of the other segments; for a list without text-typed
\* segment they return the printed raw answer.
C19_Normaliser ==
    (call.op \in {"run_agent", "arun_agent"} /\ "output" \in DOMAIN call.result)
    => LET raw == call.result.output
       IN  /\ raw.kind = "str" => ret.output = raw.chars
           /\ (raw.kind = "list" /\ TextPositions(raw.blocks) = {})
                  => ret.output = <<[repr |-> raw]>>
           /\ (raw.kind = "list" /\ TextPositions(raw.blocks) # {})
                  => /\ SelectSeq(ret.output, LAMBDA p : p # [text |-> "\n"])
                            = TextsInOrder(raw.blocks)
                     /\ Len(SelectSeq(ret.output, LAMBDA p : p = [text |-> "\n"]))
                            = Cardinality(TextPositions(raw.blocks)) - 1

\* Text, tool use, text: the two texts with one newline between them.
C19_Witness ==
    /\ call.op = "arun_agent"
    /\ "output" \in DOMAIN call.result
    /\ call.result.output.kind = "list"
    /\ Len(call.result.output.blocks) = 3
    /\ call.result.output.blocks[2] = [dict |-> TRUE, type |-> "tool_use"]
    /\ ret.output = <<[text |-> "Hi"], [text |-> "\n"], [text |-> "Bye"]>>

\* C20 as stated: a non-empty raw answer, string or segment list, never
\* normalises to the empty string.
C20_Original ==
    (/\ call.op \in {"run_agent", "arun_agent"}
     /\ "output" \in DOMAIN call.result
     /\ \/ call.result.output.kind = "str" /\ call.result.output.chars # <<>>
        \/ call.result.output.kind = "list" /\ call.result.output.blocks # <<>>)
    => ret.output # <<>>

\* C24 as stated: whenever the session holds parsed resume data it also holds
\* a resume path, and check_resume_status never reports is_parsed without
\* has_resume.
C24_Original ==
    /\ resume_parsed_data # NoData => uploaded_resume_path # NoPath
    /\ (call.op = "check_resume_status" /\ ret.is_parsed) => ret.has_resume

\* C25: a posting of the job list carries a score only if it was ranked, by a
\* search or a manual registration, in a step that began with a parsed resume
\* in the session, or carried that score already; a step that begins without
\* a parsed resume gives no posting a score.
C25_ScoredOnlyWithResume ==
    [][ \A i \in DOMAIN JobList' :
            JobList'[i].match_score # NoScore
            => \/ \E k \in DOMAIN JobList : JobList[k] = JobList'[i]
               \/ /\ is_resume_parsed
                  /\ call'.op \in {"search_jobs_by_criteria",
                                   "save_manual_job_description"} ]_vars

\* A manual registration with a parsed resume put a scored posting in front
\* of a posting that was found, and left unscored, before the resume was parsed.
C25_Witness ==
    /\ call.op = "save_manual_job_description"
    /\ is_resume_parsed
    /\ Len(JobList) = 2
    /\ JobList[1].match_score # NoScore
    /\ JobList[2].match_score = NoScore

\* C26 as stated: a step of one of the listed operations that changes a
\* session field adds exactly one entry to the event log (the log keeping its
\* most recent SummaryLimit entries).
C26_Original ==
    [][ (/\ call'.op \in {"set_resume", "set_parsed_data", "set_job_description",
                          "set_job_match", "search_jobs_by_criteria",
                          "save_manual_job_description",
                          "filter_jobs_by_requirements", "get_job_details",
                          "generate_optimized_resume", "generate_cover_letter"}
         /\ <<resume_fields, job_context, extra_attrs>>'
                # <<resume_fields, job_context, extra_attrs>>)
        => /\ conversation_summary' # <<>>
           /\ conversation_summary' =
                  LastN(Append(conversation_summary,
                               conversation_summary'[Len(conversation_summary')]),
                        SummaryLimit) ]_vars

\* C27 as stated: a parse_resume call that returns status=cached returns the
\* parse of its effective path, the argument or else the stored path, never
\* the parse of another path.
C27_Original ==
    (call.op = "parse_resume" /\ StatusOf(ret) = "cached")
    => LET effective == IF call.file_path = NoPath THEN uploaded_resume_path
                        ELSE call.file_path
       IN  StructuredData(ret).file_path = effective

\* C28 as stated: a generator call that returns status=error has written no
\* file, and a call that writes a file returns status=success with the
\* written path registered in the session.
C28_Original ==
    [][ call'.op \in Generators
        => /\ StatusOf(ret') = "error" => disk' = disk
           /\ disk' # disk
              => /\ StatusOf(ret') = "success"
                 /\ \E key \in DOMAIN GeneratedDocuments' :
                        GeneratedDocuments'[key] \in disk' \ disk ]_vars

\* C29 as stated: called on a session where no search has stored a job list
\* and no document was generated, the job and document operations answer as
\* for empty state and never with status=error.
C29_Original ==
    [][ (~HasAttr("current_job_search_results") /\ ~HasAttr("generated_documents"))
        => /\ call'.op = "list_available_jobs" => StatusOf(ret') = "no_jobs"
           /\ call'.op = "get_job_details" => StatusOf(ret') = "not_found"
           /\ call'.op = "filter_jobs_by_requirements" => StatusOf(ret') = "no_results"
           /\ call'.op = "list_generated_documents" => StatusOf(ret') = "no_documents"
           /\ call'.op = "save_manual_job_description" => StatusOf(ret') = "success" ]_vars

\* C21 as stated: when the executor fails, both entry points return a string
\* that asks the user to rephrase and carries no detail of the failure.
C21_Original ==
    (call.op \in {"run_agent", "arun_agent"} /\ "raises" \in DOMAIN call.result)
    => /\ ret.output # <<>>
       /\ \A i \in DOMAIN ret.output :
              /\ "text" \in DOMAIN ret.output[i]
              /\ "detail" \notin DOMAIN ret.output[i]

\* C22 as stated: a turn that follows turns which neither read nor wrote the
\* session store gives the backend what a first turn would give it: no earlier
\* exchange is in its chat history. (No turn of SpecChat calls a tool.)
C22_Original ==
    /\ session = <<<<NoPath, NoData, NoTime>>, <<NoProfile, NoText, NoData, NoData>>,
                   <<>>, NoAttrs>>
    /\ call.op = "turn" => call.chat_history = <<>>

\* C22 amended: the session store and the agent's chat history are the only
\* carriers between turns. A turn that directly follows a turn which neither
\* read nor wrote the session store is given the chat history that turn was
\* given, followed by that turn's input and answer if its executor call
\* returned and by nothing if it raised; a turn that directly follows a reset
\* is given an empty chat history; the session store is as it was.
C22_Amended ==
    [][ call'.op = "turn"
        => /\ UNCHANGED session
           /\ call.op = "turn"
              => call'.chat_history =
                     IF "raises" \in DOMAIN call.result THEN call.chat_history
                     ELSE Append(call.chat_history,
                                 [human |-> call.input, ai |-> call.result.output])
           /\ call.op \in {"init", "new_conversation"}
              => call'.chat_history = <<>> ]_vars

\* The second turn of conversation A, given the exchange of its first turn.
C22_Witness ==
    /\ call.op = "turn"
    /\ call.conversation = "A"
    /\ Len(messages["A"]) = 4
    /\ Len(call.chat_history) = 1
    /\ call.chat_history[1].human = "hello from A"

\* C30 as stated: the chat history a turn of one conversation gives the backend
\* holds no input typed in another conversation, and a reset in one
\* conversation removes no exchange of another conversation from the memory.
C30_Original ==
    [][ /\ call'.op = "turn"
           => \A i \in DOMAIN call'.chat_history :
                  call'.chat_history[i].human \in UserInputs[call'.conversation]
        /\ call'.op = "new_conversation"
           => \A i \in DOMAIN get_agent.chat_history :
                  get_agent.chat_history[i].human \notin UserInputs[call'.conversation]
                  => \E k \in DOMAIN get_agent'.chat_history :
                         get_agent'.chat_history[k] = get_agent.chat_history[i] ]_vars

\* C23 as stated: right after the reset that starts a new conversation the
\* session holds no resume, no job list, no generated document and no event.
C23_Original ==
    call.op = "new_conversation"
    => /\ ~has_resume
       /\ JobList = <<>>
       /\ DOMAIN GeneratedDocuments = {}
       /\ conversation_summary = <<>>

====
